---- MODULE Spec2Model ----
(***************************************************************************)
(* A model of rust-kv's Config (src/src/config.rs) and Manager             *)
(* (src/src/manager.rs).                                                   *)
(*                                                                         *)
(*  - SpecConfig drives one Config through its setters, save_to/load_from  *)
(*    and env().                                                           *)
(*  - Spec drives one Manager from several threads calling open and get    *)
(*    over a small filesystem.                                             *)
(***************************************************************************)
EXTENDS Integers, Sequences, FiniteSets, TLC

(***************************************************************************)
(* Bounds of the model.                                                    *)
(***************************************************************************)
NThreads == 2

MaxCalls == 3

MaxOps == 3

Threads == 1..NThreads

(***************************************************************************)
(* Bit sets (u32 flag words).                                              *)
(***************************************************************************)
RECURSIVE BitOr(_, _)
BitOr(a, b) ==
    IF a = 0 THEN b
    ELSE IF b = 0 THEN a
    ELSE (IF a % 2 = 1 \/ b % 2 = 1 THEN 1 ELSE 0) + 2 * BitOr(a \div 2, b \div 2)

RECURSIVE BitAnd(_, _)
BitAnd(a, b) ==
    IF a = 0 \/ b = 0 THEN 0
    ELSE (IF a % 2 = 1 /\ b % 2 = 1 THEN 1 ELSE 0) + 2 * BitAnd(a \div 2, b \div 2)

\* lmdb::EnvironmentFlags: NO_SYNC, READ_ONLY, MAP_ASYNC and the union of
\* every flag the type knows (MDB_FIXEDMAP .. MDB_NOMEMINIT).
NO_SYNC == 65536

READ_ONLY == 131072

MAP_ASYNC == 1048576

EnvironmentFlagsAll == 33505281

\* lmdb::DatabaseFlags: REVERSE_KEY, DUP_SORT and the union of every flag.
REVERSE_KEY == 2

DUP_SORT == 4

DatabaseFlagsAll == 126

\* Option::None of from_bits.
NoBits == -1

\* bitflags' from_bits: None when a bit outside the type's flags is set.
from_bits(bits, all) == IF BitAnd(bits, all) = bits THEN bits ELSE NoBits

(***************************************************************************)
(* Numbers wider than TLC's integers: a usize is b63 * 2^63 + low, where   *)
(* b63 is its top bit.  The model only uses values of low below 2^31.      *)
(***************************************************************************)
Usize(b63, low) == [b63 |-> b63, low |-> low]

(***************************************************************************)
(* Config                                                                  *)
(***************************************************************************)
DefaultMapSize == 1024 * 1024 * 1024

DefaultMaxReaders == 5

default(p) ==
    [ map_size       |-> Usize(0, DefaultMapSize),
      max_readers    |-> DefaultMaxReaders,
      flags          |-> 0,
      path           |-> p,
      buckets        |-> << >>,
      readonly       |-> FALSE,
      database_flags |-> [k \in {} |-> 0] ]

set_map_size(cfg, n) == [cfg EXCEPT !.map_size = n]

set_max_readers(cfg, n) == [cfg EXCEPT !.max_readers = n]

\* flags(): from_bits(self.flags).unwrap(); NoBits stands for the panic.
flags(cfg) == from_bits(cfg.flags, EnvironmentFlagsAll)

\* flag(f): the union is computed into a local and then dropped; the field
\* is assigned f.bits().
flag(cfg, f) ==
    LET merged == BitOr(flags(cfg), f)
    IN  [cfg EXCEPT !.flags = f]

set_path(cfg, p) == [cfg EXCEPT !.path = p]

\* bucket with the name put in front instead of at the end.
bucket_front(cfg, name) == [cfg EXCEPT !.buckets = <<name>> \o @]

bucket(cfg, name) == [cfg EXCEPT !.buckets = Append(@, name)]

\* readonly that also writes the READ_ONLY bit into the stored flags.
readonly_into_flags(cfg, b) ==
    [cfg EXCEPT !.readonly = b,
                !.flags = IF b THEN BitOr(@, READ_ONLY) ELSE @]

readonly(cfg, b) == [cfg EXCEPT !.readonly = b]

\* database_flags(name): the stored word, or empty when name has none.
database_flags(cfg, name) ==
    from_bits(IF name \in DOMAIN cfg.database_flags
              THEN cfg.database_flags[name] ELSE 0,
              DatabaseFlagsAll)

\* database_flag that stores f alone, dropping what the name had.
database_flag_overwrite(cfg, name, f) ==
    [cfg EXCEPT !.database_flags =
        [k \in DOMAIN @ \cup {name} |-> IF k = name THEN f ELSE @[k]]]

\* database_flag that merges f into the environment's flags word.
database_flag_into_flags(cfg, name, f) == [cfg EXCEPT !.flags = BitOr(@, f)]

database_flag(cfg, name, f) ==
    LET merged == BitOr(database_flags(cfg, name), f)
    IN  [cfg EXCEPT !.database_flags =
            [k \in DOMAIN @ \cup {name} |-> IF k = name THEN merged ELSE @[k]]]

\* env that passes the stored flags whatever readonly says.
env_forgets_readonly(cfg) ==
    [ flags       |-> flags(cfg),
      max_readers |-> cfg.max_readers,
      max_dbs     |-> Len(cfg.buckets) + 1,
      map_size    |-> cfg.map_size,
      path        |-> cfg.path ]

\* env(): the arguments handed to lmdb's environment builder.  The cast of
\* buckets.len() + 1 to u32 keeps the value for every length the model reaches.
env(cfg) ==
    [ flags       |-> IF cfg.readonly THEN BitOr(flags(cfg), READ_ONLY) ELSE flags(cfg),
      max_readers |-> cfg.max_readers,
      max_dbs     |-> Len(cfg.buckets) + 1,
      map_size    |-> cfg.map_size,
      path        |-> cfg.path ]

(***************************************************************************)
(* The persisted format.  toml::to_string writes one key per field; an     *)
(* integer is written in decimal.  toml::from_slice reads integers as i64. *)
(***************************************************************************)
NonUtf8Path == "/db-\\xFF"

\* Path::to_str: None for a path that is not valid UTF-8.
IsUtf8(p) == p # NonUtf8Path

TomlInteger(n) == [t |-> "integer", v |-> n]

TomlString(s) == [t |-> "string", v |-> s]

TomlBoolean(b) == [t |-> "boolean", v |-> b]

TomlArray(a) == [t |-> "array", v |-> [i \in DOMAIN a |-> TomlString(a[i])]]

TomlTable(m) == [t |-> "table", v |-> [k \in DOMAIN m |-> TomlInteger(Usize(0, m[k]))]]

NoBytes == [t |-> "nothing"]

\* toml::to_string(self): serde fails on a path that is not UTF-8.
to_string(cfg) ==
    IF ~IsUtf8(cfg.path) THEN [tag |-> "Err", bytes |-> NoBytes]
    ELSE [tag |-> "Ok",
          bytes |-> [ map_size       |-> TomlInteger(cfg.map_size),
                      max_readers    |-> TomlInteger(Usize(0, cfg.max_readers)),
                      flags          |-> TomlInteger(Usize(0, cfg.flags)),
                      path           |-> TomlString(cfg.path),
                      buckets        |-> TomlArray(cfg.buckets),
                      readonly       |-> TomlBoolean(cfg.readonly),
                      database_flags |-> TomlTable(cfg.database_flags) ]]

\* save_to(w): InvalidConfiguration when to_string fails, the writer's error
\* when write_all fails.
save_to(cfg, wok) ==
    LET s == to_string(cfg)
    IN  IF s.tag = "Err" THEN [tag |-> "InvalidConfiguration", bytes |-> NoBytes]
        ELSE IF ~wok THEN [tag |-> "Io", bytes |-> NoBytes]
        ELSE [tag |-> "Ok", bytes |-> s.bytes]

\* An integer token fits toml's i64 when it is below 2^63.
FitsI64(tok) == tok.t = "integer" /\ tok.v.b63 = 0

NoConfig == [tag |-> "nothing"]

\* toml::from_slice into Config: every integer token has to parse as i64 and
\* every key has to carry the type of its field.
from_slice(bytes) ==
    IF /\ bytes # NoBytes
       /\ FitsI64(bytes.map_size)
       /\ FitsI64(bytes.max_readers)
       /\ FitsI64(bytes.flags)
       /\ bytes.path.t = "string"
       /\ bytes.buckets.t = "array"
       /\ bytes.readonly.t = "boolean"
       /\ bytes.database_flags.t = "table"
       /\ \A k \in DOMAIN bytes.database_flags.v : FitsI64(bytes.database_flags.v[k])
    THEN [tag |-> "Ok",
          cfg |-> [ map_size       |-> bytes.map_size.v,
                    max_readers    |-> bytes.max_readers.v.low,
                    flags          |-> bytes.flags.v.low,
                    path           |-> bytes.path.v,
                    buckets        |-> [i \in DOMAIN bytes.buckets.v |-> bytes.buckets.v[i].v],
                    readonly       |-> bytes.readonly.v,
                    database_flags |-> [k \in DOMAIN bytes.database_flags.v |->
                                           bytes.database_flags.v[k].v.low] ]]
    ELSE [tag |-> "Err", cfg |-> NoConfig]

\* load_from(r): InvalidConfiguration when from_slice fails.
load_from(bytes) ==
    LET r == from_slice(bytes)
    IN  IF r.tag = "Ok" THEN r ELSE [tag |-> "InvalidConfiguration", cfg |-> NoConfig]

(***************************************************************************)
(* State.                                                                  *)
(*   Config:  c (the Config under construction), lastOp (the setter that   *)
(*            ran last and its arguments), nops, saved (what save_to last  *)
(*            returned and the Config it wrote), loaded (what load_from    *)
(*            last returned and the Config its bytes were written from),   *)
(*            opened (the arguments env() last gave the engine), foreign   *)
(*            (c was loaded from bytes that save_to did not write).        *)
(*   Manager: stores (the registry map), mutex (the thread holding the     *)
(*            registry lock, 0 when free), heap (every Store allocated:    *)
(*            an Arc is an index into it), dirs (directories that exist),  *)
(*            and per thread pc, call, canonical, res.                     *)
(*   Process: others (the maps of the process's other Manager instances),  *)
(*            lk, lh (per thread, what it does with a Store's RwLock and   *)
(*            on which Store).                                             *)
(*   History: ncalls, newCalls / newErrs (Store::new runs and failures per *)
(*            canonical path), passed (paths given to open), openOk        *)
(*            (path, handle) of every open that returned Ok, handed        *)
(*            (canonical path, handle) of every handle returned.           *)
(***************************************************************************)
VARIABLES c, lastOp, nops, saved, loaded, opened, foreign,
          stores, mutex, heap, dirs, pc, call, canonical, res,
          ncalls, newCalls, newErrs, passed, openOk, handed,
          others, lk, lh

cvars == <<c, lastOp, nops, saved, loaded, opened, foreign>>

pvars == <<others, lk, lh>>

mvars == <<stores, mutex, heap, dirs, pc, call, canonical, res,
           ncalls, newCalls, newErrs, passed, openOk, handed, others, lk, lh>>

vars == <<c, lastOp, nops, saved, loaded, opened, foreign,
          stores, mutex, heap, dirs, pc, call, canonical, res,
          ncalls, newCalls, newErrs, passed, openOk, handed,
          others, lk, lh>>

(***************************************************************************)
(* The filesystem the Manager runs over: four spellings of two             *)
(* directories.  "./db" is relative to the working directory /abs and      *)
(* "/link" is a symbolic link to /abs/db.                                  *)
(***************************************************************************)
Paths == {"./db", "/abs/db", "/link", "/other"}

IsSymlink(p) == p = "/link"

Resolve(p) == IF p = "/other" THEN "/other" ELSE "/abs/db"

Canonicals == {Resolve(p) : p \in Paths}

IoError == "io error"

\* canonicalize that makes the path absolute and leaves symbolic links in it.
canonicalize_keeps_links(p, ds) ==
    IF Resolve(p) \notin ds THEN IoError
    ELSE IF IsSymlink(p) THEN p ELSE Resolve(p)

\* Path::canonicalize: the absolute, symlink-free form, or an I/O error when
\* the directory does not exist.
canonicalize(p, ds) == IF Resolve(p) \in ds THEN Resolve(p) ELSE IoError

\* fs::create_dir_all: the directories that exist afterwards.  It can fail
\* (ok = FALSE), and it cannot create a directory through a dangling link.
create_dir_all(p, ds, ok) ==
    IF ok /\ ~IsSymlink(p) THEN ds \cup {Resolve(p)} ELSE ds

(***************************************************************************)
(* Inputs of the Config operations.                                        *)
(***************************************************************************)
MapSizes == {Usize(0, 0), Usize(0, 4096), Usize(1, 0)}

MaxReaders == {1, 126}

EnvFlags == {0, NO_SYNC, MAP_ASYNC}

ConfigPaths == {"./db", "/abs/db", NonUtf8Path}

BucketNames == {"a", "b"}

DbFlags == {REVERSE_KEY, DUP_SORT}

\* Documents that no save_to wrote: flags = 2 and database_flags.a = 1 (bits
\* no flag of the type has), flags = NO_SYNC, and flags = "x".
ForeignBytes ==
    { to_string([default("/abs/db") EXCEPT !.flags = 2]).bytes,
      to_string([default("/abs/db") EXCEPT !.database_flags = ("a" :> 1)]).bytes,
      to_string([default("/abs/db") EXCEPT !.flags = NO_SYNC]).bytes,
      [to_string(default("/abs/db")).bytes EXCEPT !.flags = TomlString("x")] }

Op(name, n, s, b) == [op |-> name, n |-> n, s |-> s, b |-> b]

NoSave == [tag |-> "none", bytes |-> NoBytes, of |-> NoConfig]

NoLoad == [tag |-> "none", cfg |-> NoConfig, of |-> NoConfig]

NoEnv == [flags |-> 0, max_readers |-> 0, max_dbs |-> 0,
          map_size |-> Usize(0, 0), path |-> ""]

InitManager ==
    /\ stores = [k \in {} |-> 0]
    /\ mutex = 0
    /\ heap = << >>
    /\ pc = [t \in Threads |-> "idle"]
    /\ call = [t \in Threads |-> [op |-> "none", path |-> "", cfg |-> NoConfig]]
    /\ canonical = [t \in Threads |-> ""]
    /\ res = [t \in Threads |-> [tag |-> "none", h |-> 0]]
    /\ ncalls = 0
    /\ newCalls = [k \in Paths |-> 0]
    /\ newErrs = [k \in Paths |-> 0]
    /\ passed = {}
    /\ openOk = {}
    /\ handed = {}
    /\ others = << >>
    /\ lk = [t \in Threads |-> "none"]
    /\ lh = [t \in Threads |-> 0]

InitConfigVars(p) ==
    /\ c = default(p)
    /\ lastOp = Op("default", 0, p, FALSE)
    /\ nops = 0
    /\ saved = NoSave
    /\ loaded = NoLoad
    /\ opened = NoEnv
    /\ foreign = FALSE

(***************************************************************************)
(* Config operations.                                                      *)
(***************************************************************************)
Step(op, cfg) ==
    /\ nops < MaxOps
    /\ nops' = nops + 1
    /\ lastOp' = op
    /\ c' = cfg
    /\ UNCHANGED foreign
    /\ UNCHANGED mvars

SetMapSize(n) ==
    /\ Step(Op("set_map_size", 0, "", FALSE), set_map_size(c, n))
    /\ UNCHANGED <<saved, loaded, opened>>

SetMaxReaders(n) ==
    /\ Step(Op("set_max_readers", n, "", FALSE), set_max_readers(c, n))
    /\ UNCHANGED <<saved, loaded, opened>>

Flag(f) ==
    /\ flags(c) # NoBits
    /\ Step(Op("flag", f, "", FALSE), flag(c, f))
    /\ UNCHANGED <<saved, loaded, opened>>

SetPath(p) ==
    /\ Step(Op("set_path", 0, p, FALSE), set_path(c, p))
    /\ UNCHANGED <<saved, loaded, opened>>

Bucket(name) ==
    /\ Step(Op("bucket", 0, name, FALSE), bucket(c, name))
    /\ UNCHANGED <<saved, loaded, opened>>

Readonly(b) ==
    /\ Step(Op("readonly", 0, "", b), readonly(c, b))
    /\ UNCHANGED <<saved, loaded, opened>>

DatabaseFlag(name, f) ==
    /\ database_flags(c, name) # NoBits
    /\ Step(Op("database_flag", f, name, FALSE), database_flag(c, name, f))
    /\ UNCHANGED <<saved, loaded, opened>>

SaveTo(wok) ==
    /\ Step(Op("save_to", 0, "", wok), c)
    /\ saved' = [tag   |-> save_to(c, wok).tag,
                 bytes |-> save_to(c, wok).bytes,
                 of    |-> c]
    /\ UNCHANGED <<loaded, opened>>

\* load_from over the bytes the last successful save_to produced.
LoadFrom ==
    /\ saved.tag = "Ok"
    /\ Step(Op("load_from", 0, "", FALSE), c)
    /\ loaded' = [tag |-> load_from(saved.bytes).tag,
                  cfg |-> load_from(saved.bytes).cfg,
                  of  |-> saved.of]
    /\ UNCHANGED <<saved, opened>>

\* load_from over bytes from elsewhere; the Config it returns replaces c.
LoadForeign(bytes) ==
    /\ nops < MaxOps
    /\ nops' = nops + 1
    /\ lastOp' = Op("load_from", 0, load_from(bytes).tag, TRUE)
    /\ c' = IF load_from(bytes).tag = "Ok" THEN load_from(bytes).cfg ELSE c
    /\ foreign' = (foreign \/ load_from(bytes).tag = "Ok")
    /\ UNCHANGED <<saved, loaded, opened>>
    /\ UNCHANGED mvars

Env ==
    /\ flags(c) # NoBits
    /\ Step(Op("env", 0, "", FALSE), c)
    /\ opened' = env(c)
    /\ UNCHANGED <<saved, loaded>>

NextConfig ==
    \/ \E n \in MapSizes : SetMapSize(n)
    \/ \E n \in MaxReaders : SetMaxReaders(n)
    \/ \E f \in EnvFlags : Flag(f)
    \/ \E p \in ConfigPaths : SetPath(p)
    \/ \E name \in BucketNames : Bucket(name)
    \/ \E b \in BOOLEAN : Readonly(b)
    \/ \E name \in BucketNames, f \in DbFlags : DatabaseFlag(name, f)
    \/ \E wok \in BOOLEAN : SaveTo(wok)
    \/ LoadFrom
    \/ \E bytes \in ForeignBytes : LoadForeign(bytes)
    \/ Env

InitConfig ==
    /\ \E p \in ConfigPaths : InitConfigVars(p)
    /\ InitManager
    /\ dirs = {}

SpecConfig == InitConfig /\ [][NextConfig]_vars

(***************************************************************************)
(* Manager.  A call of open or get is a sequence of steps of its thread;   *)
(* pc names the line the thread executes next.                             *)
(***************************************************************************)
OpenConfigs ==
    {default(p) : p \in Paths} \cup {readonly(bucket(default("/abs/db"), "a"), TRUE)}

Ok(h) == [tag |-> "Ok", h |-> h]

None == [tag |-> "None", h |-> 0]

Err(kind) == [tag |-> kind, h |-> 0]

\* A thread calls when it is not inside a call and not blocked on a lock.
CanCall(t) ==
    /\ pc[t] \in {"idle", "done"}
    /\ lk[t] \in {"none", "read", "write"}
    /\ ncalls < MaxCalls

\* The Manager instance the threads call: the process's latest.
ThisManager == Len(others) + 1

\* Store::new(cfg): the Store, the engine arguments it was opened with and
\* the Manager that opened it.
NewStore(cfg) == [cfg |-> cfg, env |-> env(cfg), mgr |-> ThisManager]

\* The (canonical path, handle) and (path, handle) a finished call adds to
\* the history.
Returned(t, r) ==
    /\ handed' = IF r.tag = "Ok" THEN handed \cup {<<canonical[t], r.h>>} ELSE handed
    /\ openOk' = IF r.tag = "Ok" /\ call[t].op = "open"
                 THEN openOk \cup {<<call[t].path, r.h>>} ELSE openOk

\* open, line 68: the call starts with fs::create_dir_all(&cfg.path), whose
\* failure is ignored.
Open(t, cfg, mkdirOk) ==
    /\ CanCall(t)
    /\ ncalls' = ncalls + 1
    /\ call' = [call EXCEPT ![t] = [op |-> "open", path |-> cfg.path, cfg |-> cfg]]
    /\ passed' = passed \cup {cfg.path}
    /\ dirs' = create_dir_all(cfg.path, dirs, mkdirOk)
    /\ res' = [res EXCEPT ![t] = [tag |-> "none", h |-> 0]]
    /\ pc' = [pc EXCEPT ![t] = "open_canon"]
    /\ UNCHANGED <<stores, mutex, heap, canonical, newCalls, newErrs, openOk, handed>>
    /\ UNCHANGED cvars
    /\ UNCHANGED pvars

\* open, line 69: canonicalize()?
OpenCanon(t) ==
    /\ pc[t] = "open_canon"
    /\ LET k == canonicalize(call[t].path, dirs)
       IN  IF k = IoError
           THEN /\ res' = [res EXCEPT ![t] = Err("Io")]
                /\ pc' = [pc EXCEPT ![t] = "done"]
                /\ UNCHANGED canonical
           ELSE /\ canonical' = [canonical EXCEPT ![t] = k]
                /\ pc' = [pc EXCEPT ![t] = "open_lock"]
                /\ UNCHANGED res
    /\ UNCHANGED <<stores, mutex, heap, dirs, call, ncalls, newCalls, newErrs,
                   passed, openOk, handed>>
    /\ UNCHANGED cvars
    /\ UNCHANGED pvars

\* The lock taken without waiting for its holder.
OpenLock_NoWait(t) ==
    /\ pc[t] = "open_lock"
    /\ mutex' = t
    /\ pc' = [pc EXCEPT ![t] = "open_entry"]
    /\ UNCHANGED <<stores, heap, dirs, call, canonical, res, ncalls, newCalls,
                   newErrs, passed, openOk, handed>>
    /\ UNCHANGED cvars
    /\ UNCHANGED pvars

\* open, line 70: self.stores.lock(); the guard lives until open returns.
OpenLock(t) ==
    /\ pc[t] = "open_lock"
    /\ mutex = 0
    /\ mutex' = t
    /\ pc' = [pc EXCEPT ![t] = "open_entry"]
    /\ UNCHANGED <<stores, heap, dirs, call, canonical, res, ncalls, newCalls,
                   newErrs, passed, openOk, handed>>
    /\ UNCHANGED cvars
    /\ UNCHANGED pvars

\* The entry treated as vacant whether or not the key is in the map.
OpenEntry_AlwaysVacant(t) ==
    /\ pc[t] = "open_entry"
    /\ pc' = [pc EXCEPT ![t] = "open_new"]
    /\ UNCHANGED <<stores, mutex, heap, dirs, call, canonical, res, ncalls,
                   newCalls, newErrs, passed, openOk, handed>>
    /\ UNCHANGED cvars
    /\ UNCHANGED pvars

\* An occupied entry reopened when the config differs from the one that
\* created it.
OpenEntry_ReopenOnNewConfig(t) ==
    /\ pc[t] = "open_entry"
    /\ IF canonical[t] \in DOMAIN stores /\ heap[stores[canonical[t]]].cfg = call[t].cfg
       THEN /\ res' = [res EXCEPT ![t] = Ok(stores[canonical[t]])]
            /\ pc' = [pc EXCEPT ![t] = "open_ret"]
       ELSE /\ pc' = [pc EXCEPT ![t] = "open_new"]
            /\ UNCHANGED res
    /\ UNCHANGED <<stores, mutex, heap, dirs, call, canonical, ncalls, newCalls,
                   newErrs, passed, openOk, handed>>
    /\ UNCHANGED cvars
    /\ UNCHANGED pvars

\* open that reads the Store of an occupied entry before it clones the
\* handle: it takes the Store's read lock with the registry lock held.
OpenEntry_ReadsStore(t) ==
    /\ pc[t] = "open_entry"
    /\ IF canonical[t] \in DOMAIN stores
       THEN /\ \A u \in Threads :
                  ~(lk[u] = "write" /\ lh[u] = stores[canonical[t]])
            /\ res' = [res EXCEPT ![t] = Ok(stores[canonical[t]])]
            /\ pc' = [pc EXCEPT ![t] = "open_ret"]
       ELSE /\ pc' = [pc EXCEPT ![t] = "open_new"]
            /\ UNCHANGED res
    /\ UNCHANGED <<stores, mutex, heap, dirs, call, canonical, ncalls, newCalls,
                   newErrs, passed, openOk, handed>>
    /\ UNCHANGED cvars
    /\ UNCHANGED pvars

\* open, lines 71-73: map.entry(canonical); Occupied clones the Arc in the map.
OpenEntry(t) ==
    /\ pc[t] = "open_entry"
    /\ IF canonical[t] \in DOMAIN stores
       THEN /\ res' = [res EXCEPT ![t] = Ok(stores[canonical[t]])]
            /\ pc' = [pc EXCEPT ![t] = "open_ret"]
       ELSE /\ pc' = [pc EXCEPT ![t] = "open_new"]
            /\ UNCHANGED res
    /\ UNCHANGED <<stores, mutex, heap, dirs, call, canonical, ncalls, newCalls,
                   newErrs, passed, openOk, handed>>
    /\ UNCHANGED cvars
    /\ UNCHANGED pvars

\* The new Arc put into the map before Store::new has answered.
OpenNew_InsertFirst(t, engineOk) ==
    /\ pc[t] = "open_new"
    /\ newCalls' = [newCalls EXCEPT ![canonical[t]] = @ + 1]
    /\ heap' = Append(heap, NewStore(call[t].cfg))
    /\ stores' = (canonical[t] :> Len(heap) + 1) @@ stores
    /\ IF engineOk
       THEN /\ res' = [res EXCEPT ![t] = Ok(Len(heap) + 1)]
            /\ UNCHANGED newErrs
       ELSE /\ res' = [res EXCEPT ![t] = Err("Engine")]
            /\ newErrs' = [newErrs EXCEPT ![canonical[t]] = @ + 1]
    /\ pc' = [pc EXCEPT ![t] = "open_ret"]
    /\ UNCHANGED <<mutex, dirs, call, canonical, ncalls, passed, openOk, handed>>
    /\ UNCHANGED cvars
    /\ UNCHANGED pvars

\* open, lines 74-75: Store::new(cfg)? opens the engine; on success the new
\* Arc is inserted under the canonical key, on failure the error returns.
OpenNew(t, engineOk) ==
    /\ pc[t] = "open_new"
    /\ newCalls' = [newCalls EXCEPT ![canonical[t]] = @ + 1]
    /\ IF engineOk
       THEN /\ heap' = Append(heap, NewStore(call[t].cfg))
            /\ stores' = (canonical[t] :> Len(heap) + 1) @@ stores
            /\ res' = [res EXCEPT ![t] = Ok(Len(heap) + 1)]
            /\ UNCHANGED newErrs
       ELSE /\ res' = [res EXCEPT ![t] = Err("Engine")]
            /\ newErrs' = [newErrs EXCEPT ![canonical[t]] = @ + 1]
            /\ UNCHANGED <<heap, stores>>
    /\ pc' = [pc EXCEPT ![t] = "open_ret"]
    /\ UNCHANGED <<mutex, dirs, call, canonical, ncalls, passed, openOk, handed>>
    /\ UNCHANGED cvars
    /\ UNCHANGED pvars

\* A return that releases the lock on the success path only.
OpenReturn_KeepsLockOnError(t) ==
    /\ pc[t] = "open_ret"
    /\ mutex' = IF res[t].tag = "Ok" THEN 0 ELSE mutex
    /\ pc' = [pc EXCEPT ![t] = "done"]
    /\ Returned(t, res[t])
    /\ UNCHANGED <<stores, heap, dirs, call, canonical, res, ncalls, newCalls,
                   newErrs, passed>>
    /\ UNCHANGED cvars
    /\ UNCHANGED pvars

\* open, line 78: the guard is dropped and the result returned.
OpenReturn(t) ==
    /\ pc[t] = "open_ret"
    /\ mutex' = 0
    /\ pc' = [pc EXCEPT ![t] = "done"]
    /\ Returned(t, res[t])
    /\ UNCHANGED <<stores, heap, dirs, call, canonical, res, ncalls, newCalls,
                   newErrs, passed>>
    /\ UNCHANGED cvars
    /\ UNCHANGED pvars

\* get is called.
Get(t, p) ==
    /\ CanCall(t)
    /\ ncalls' = ncalls + 1
    /\ call' = [call EXCEPT ![t] = [op |-> "get", path |-> p, cfg |-> NoConfig]]
    /\ res' = [res EXCEPT ![t] = [tag |-> "none", h |-> 0]]
    /\ pc' = [pc EXCEPT ![t] = "get_canon"]
    /\ UNCHANGED <<stores, mutex, heap, dirs, canonical, newCalls, newErrs,
                   passed, openOk, handed>>
    /\ UNCHANGED cvars
    /\ UNCHANGED pvars

\* get that falls back to the path as given when canonicalize fails.
GetCanon_IgnoreError(t) ==
    /\ pc[t] = "get_canon"
    /\ LET k == canonicalize(call[t].path, dirs)
       IN  canonical' = [canonical EXCEPT ![t] = IF k = IoError THEN call[t].path ELSE k]
    /\ pc' = [pc EXCEPT ![t] = "get_lookup"]
    /\ UNCHANGED <<stores, mutex, heap, dirs, call, res, ncalls, newCalls, newErrs,
                   passed, openOk, handed>>
    /\ UNCHANGED cvars
    /\ UNCHANGED pvars

\* get, line 62: canonicalize()?
GetCanon(t) ==
    /\ pc[t] = "get_canon"
    /\ LET k == canonicalize(call[t].path, dirs)
       IN  IF k = IoError
           THEN /\ res' = [res EXCEPT ![t] = Err("Io")]
                /\ pc' = [pc EXCEPT ![t] = "done"]
                /\ UNCHANGED canonical
           ELSE /\ canonical' = [canonical EXCEPT ![t] = k]
                /\ pc' = [pc EXCEPT ![t] = "get_lookup"]
                /\ UNCHANGED res
    /\ UNCHANGED <<stores, mutex, heap, dirs, call, ncalls, newCalls, newErrs,
                   passed, openOk, handed>>
    /\ UNCHANGED cvars
    /\ UNCHANGED pvars

\* The lookup made with the path as the caller spelled it.
GetLookup_RawPath(t) ==
    /\ pc[t] = "get_lookup"
    /\ mutex = 0
    /\ LET r == IF call[t].path \in DOMAIN stores
                THEN Ok(stores[call[t].path]) ELSE None
       IN  /\ res' = [res EXCEPT ![t] = r]
           /\ Returned(t, r)
    /\ pc' = [pc EXCEPT ![t] = "done"]
    /\ UNCHANGED <<stores, mutex, heap, dirs, call, canonical, ncalls, newCalls,
                   newErrs, passed>>
    /\ UNCHANGED cvars
    /\ UNCHANGED pvars

\* A get that opens the Store when the key is not in the map.
GetLookup_Creates(t) ==
    /\ pc[t] = "get_lookup"
    /\ mutex = 0
    /\ IF canonical[t] \in DOMAIN stores
       THEN /\ res' = [res EXCEPT ![t] = Ok(stores[canonical[t]])]
            /\ Returned(t, Ok(stores[canonical[t]]))
            /\ UNCHANGED <<stores, heap, newCalls>>
       ELSE /\ heap' = Append(heap, NewStore(default(call[t].path)))
            /\ stores' = (canonical[t] :> Len(heap) + 1) @@ stores
            /\ newCalls' = [newCalls EXCEPT ![canonical[t]] = @ + 1]
            /\ res' = [res EXCEPT ![t] = Ok(Len(heap) + 1)]
            /\ Returned(t, Ok(Len(heap) + 1))
    /\ pc' = [pc EXCEPT ![t] = "done"]
    /\ UNCHANGED <<mutex, dirs, call, canonical, ncalls, newErrs, passed>>
    /\ UNCHANGED cvars
    /\ UNCHANGED pvars

\* get, line 63: lock, look the canonical key up, clone, unlock: the guard
\* is a temporary of this one expression.
GetLookup(t) ==
    /\ pc[t] = "get_lookup"
    /\ mutex = 0
    /\ LET r == IF canonical[t] \in DOMAIN stores
                THEN Ok(stores[canonical[t]]) ELSE None
       IN  /\ res' = [res EXCEPT ![t] = r]
           /\ Returned(t, r)
    /\ pc' = [pc EXCEPT ![t] = "done"]
    /\ UNCHANGED <<stores, mutex, heap, dirs, call, canonical, ncalls, newCalls,
                   newErrs, passed>>
    /\ UNCHANGED cvars
    /\ UNCHANGED pvars

Next ==
    \/ \E t \in Threads, cfg \in OpenConfigs, mkdirOk \in BOOLEAN : Open(t, cfg, mkdirOk)
    \/ \E t \in Threads : OpenCanon(t)
    \/ \E t \in Threads : OpenLock(t)
    \/ \E t \in Threads : OpenEntry(t)
    \/ \E t \in Threads, engineOk \in BOOLEAN : OpenNew(t, engineOk)
    \/ \E t \in Threads : OpenReturn(t)
    \/ \E t \in Threads, p \in Paths : Get(t, p)
    \/ \E t \in Threads : GetCanon(t)
    \/ \E t \in Threads : GetLookup(t)

\* Manager::new().  At the start /other exists and /abs/db does not.
Init ==
    /\ InitManager
    /\ dirs = {"/other"}
    /\ InitConfigVars("/abs/db")

Spec == Init /\ [][Next]_vars

(***************************************************************************)
(* The process around the Manager: it can construct further Manager        *)
(* instances, and its threads lock the Stores that open and get returned.  *)
(***************************************************************************)
MaxManagers == 2

Managers == 1..ThisManager

\* The map of Manager m of the process.
StoresOf(m) == IF m = ThisManager THEN stores ELSE others[m]

\* Manager::new() once more.  The Manager the process had stays alive with
\* its map and its Stores; the threads call the new one from here on.
ManagerNew ==
    /\ ThisManager < MaxManagers
    /\ \A t \in Threads : pc[t] \in {"idle", "done"}
    /\ others' = Append(others, stores)
    /\ stores' = [k \in {} |-> 0]
    /\ UNCHANGED <<mutex, heap, dirs, pc, call, canonical, res, ncalls,
                   newCalls, newErrs, passed, openOk, handed, lk, lh>>
    /\ UNCHANGED cvars

\* Two Configs and two paths of one database location.
ProcessConfigs == {default("/abs/db"), default("./db")}

ProcessPaths == {"/abs/db", "./db"}

NextProcess ==
    \/ ManagerNew
    \/ \E t \in Threads, cfg \in ProcessConfigs : Open(t, cfg, TRUE)
    \/ \E t \in Threads : OpenCanon(t)
    \/ \E t \in Threads : OpenLock(t)
    \/ \E t \in Threads : OpenEntry(t)
    \/ \E t \in Threads, engineOk \in BOOLEAN : OpenNew(t, engineOk)
    \/ \E t \in Threads : OpenReturn(t)
    \/ \E t \in Threads, p \in ProcessPaths : Get(t, p)
    \/ \E t \in Threads : GetCanon(t)
    \/ \E t \in Threads : GetLookup(t)

\* The first Manager::new(); the database directory exists.
InitProcess ==
    /\ InitManager
    /\ dirs = {"/abs/db"}
    /\ InitConfigVars("/abs/db")

SpecProcess == InitProcess /\ [][NextProcess]_vars

\* RwLock<Store>: the threads that hold the lock of Store h, other than t.
Readers(h, t) == {u \in Threads \ {t} : lk[u] = "read" /\ lh[u] = h}

Writers(h, t) == {u \in Threads \ {t} : lk[u] = "write" /\ lh[u] = h}

LockModes == {"read", "write"}

\* A thread that holds a handle calls read() or write() on it, and blocks
\* until the lock is granted.
StoreWant(t, mode) ==
    /\ pc[t] = "done"
    /\ res[t].tag = "Ok"
    /\ lk[t] = "none"
    /\ lk' = [lk EXCEPT ![t] = IF mode = "read" THEN "want_read" ELSE "want_write"]
    /\ lh' = [lh EXCEPT ![t] = res[t].h]
    /\ UNCHANGED <<stores, mutex, heap, dirs, pc, call, canonical, res, ncalls,
                   newCalls, newErrs, passed, openOk, handed, others>>
    /\ UNCHANGED cvars

\* The lock is granted: a reader waits for the writer to leave, a writer
\* for everyone.
StoreAcquire(t) ==
    /\ lk[t] \in {"want_read", "want_write"}
    /\ Writers(lh[t], t) = {}
    /\ lk[t] = "want_write" => Readers(lh[t], t) = {}
    /\ lk' = [lk EXCEPT ![t] = IF lk[t] = "want_read" THEN "read" ELSE "write"]
    /\ UNCHANGED <<stores, mutex, heap, dirs, pc, call, canonical, res, ncalls,
                   newCalls, newErrs, passed, openOk, handed, others, lh>>
    /\ UNCHANGED cvars

\* The guard is dropped.  A thread inside open or get keeps its guard until
\* the call has returned.
StoreRelease(t) ==
    /\ lk[t] \in LockModes
    /\ pc[t] \in {"idle", "done"}
    /\ lk' = [lk EXCEPT ![t] = "none"]
    /\ lh' = [lh EXCEPT ![t] = 0]
    /\ UNCHANGED <<stores, mutex, heap, dirs, pc, call, canonical, res, ncalls,
                   newCalls, newErrs, passed, openOk, handed, others>>
    /\ UNCHANGED cvars

\* The step of a thread inside a call of open or get.
ManagerStep(t) ==
    \/ OpenCanon(t)
    \/ OpenLock(t)
    \/ OpenEntry(t)
    \/ \E engineOk \in BOOLEAN : OpenNew(t, engineOk)
    \/ OpenReturn(t)
    \/ GetCanon(t)
    \/ GetLookup(t)

LockPaths == {"/abs/db", "/other"}

NextLocks ==
    \/ \E t \in Threads, p \in LockPaths : Open(t, default(p), TRUE)
    \/ \E t \in Threads : OpenCanon(t)
    \/ \E t \in Threads : OpenLock(t)
    \/ \E t \in Threads : OpenEntry(t)
    \/ \E t \in Threads, engineOk \in BOOLEAN : OpenNew(t, engineOk)
    \/ \E t \in Threads : OpenReturn(t)
    \/ \E t \in Threads, p \in LockPaths : Get(t, p)
    \/ \E t \in Threads : GetCanon(t)
    \/ \E t \in Threads : GetLookup(t)
    \/ \E t \in Threads, mode \in LockModes : StoreWant(t, mode)
    \/ \E t \in Threads : StoreAcquire(t)
    \/ \E t \in Threads : StoreRelease(t)

\* Manager::new(); both database directories exist.
InitLocks ==
    /\ InitManager
    /\ dirs = LockPaths
    /\ InitConfigVars("/abs/db")

SpecLocks == InitLocks /\ [][NextLocks]_vars

(***************************************************************************)
(* Claims about Manager, checked under Spec.                               *)
(***************************************************************************)
\* Store::new runs that succeeded for a canonical path.
Opened(cn) == newCalls[cn] - newErrs[cn]

\* The thread's call ends in this step.
Ends(t, op) == call[t].op = op /\ pc[t] # "done" /\ pc'[t] = "done"

\* C1: the registry holds one Store per canonical path, and every handle
\* ever returned for a path by open or get is that Store.
C1_OneSharedStorePerPath ==
    \A e \in handed : e[1] \in DOMAIN stores /\ stores[e[1]] = e[2]

\* C1 witness: an open and a get of two threads have returned the same
\* handle for one canonical path.
C1_Witness ==
    \E t, u \in Threads :
        /\ pc[t] = "done" /\ call[t].op = "open" /\ res[t].tag = "Ok"
        /\ pc[u] = "done" /\ call[u].op = "get" /\ res[u] = res[t]
        /\ canonical[u] = canonical[t]

\* Every thread has finished a successful open of canonical path cn.
AllOpened(cn) ==
    \A t \in Threads :
        pc[t] = "done" /\ call[t].op = "open" /\ res[t].tag = "Ok" /\ canonical[t] = cn

\* C2: when all threads open the same canonical path concurrently, every
\* call returns the same Store and Store::new runs exactly once; the engine
\* is never opened successfully twice for one path.
C2_ConcurrentOpensShareOneStore ==
    \A cn \in Canonicals :
        /\ Opened(cn) <= 1
        /\ AllOpened(cn) =>
              /\ \A t, u \in Threads : res[t].h = res[u].h
              /\ Opened(cn) = 1
              /\ ncalls = NThreads => newCalls[cn] = 1

\* C2 witness: each thread has made one call, an open of /abs/db, and all
\* have returned.
C2_Witness == AllOpened("/abs/db") /\ ncalls = NThreads

\* C3: once open(cfg) with cfg.path = p has returned h, every get(p) that
\* completes afterwards returns Some(h).
C3_GetReturnsOpenedHandle ==
    [][\A t \in Threads :
          Ends(t, "get") =>
              \A e \in openOk : e[1] = call[t].path => res'[t] = Ok(e[2])]_vars

\* C3 witness: a get has returned the handle an earlier open of the same
\* path returned.
C3_Witness ==
    \E t \in Threads :
        /\ pc[t] = "done" /\ call[t].op = "get" /\ res[t].tag = "Ok"
        /\ <<call[t].path, res[t].h>> \in openOk

\* C4 as claimed: get(p) returns Ok(None) for every path p never passed to
\* open.
C4_GetOfUnopenedPathIsNone ==
    [][\A t \in Threads :
          Ends(t, "get") /\ call[t].path \notin passed => res'[t] = None]_vars

\* C4 amended: when no spelling of p's location was ever passed to open,
\* get(p) returns Ok(None) if p can be canonicalized and an I/O error if not.
C4_GetOfUnopenedLocation ==
    [][\A t \in Threads :
          (Ends(t, "get") /\ \A q \in passed : Resolve(q) # Resolve(call[t].path))
              => res'[t] = IF Resolve(call[t].path) \in dirs THEN None ELSE Err("Io")]_vars

\* C4 witness: get has answered None for a location never opened while the
\* registry holds an entry for another location.
C4_Witness ==
    \E t \in Threads :
        /\ pc[t] = "done" /\ call[t].op = "get" /\ res[t] = None
        /\ \A q \in passed : Resolve(q) # Resolve(call[t].path)
        /\ DOMAIN stores # {}

\* C5: opens through different spellings of one location return the same
\* entry, the registry holds one entry for the location, and the engine is
\* opened once.
C5_SpellingsShareOneEntry ==
    /\ \A e, f \in openOk : Resolve(e[1]) = Resolve(f[1]) => e[2] = f[2]
    /\ \A cn \in Canonicals :
          /\ Cardinality({k \in DOMAIN stores : Resolve(k) = cn}) <= 1
          /\ Cardinality({i \in DOMAIN heap : Resolve(heap[i].cfg.path) = cn}) <= 1

\* C5 witness: "./db", "/abs/db" and the symbolic link "/link" have each been
\* opened and the registry holds one entry.
C5_Witness ==
    \E h \in DOMAIN heap :
        /\ {<<"./db", h>>, <<"/abs/db", h>>, <<"/link", h>>} \subseteq openOk
        /\ DOMAIN stores = {"/abs/db"}

\* C6: when Store::new fails, open returns the error and the map is what it
\* was: the failing step changes no entry and, while the failed call still
\* holds the lock, the map has no entry for its canonical path.
C6_FailedOpenLeavesRegistry ==
    /\ [][\A t \in Threads :
             (pc[t] \in {"open_new", "open_ret"} /\ res'[t].tag = "Engine")
                 => stores' = stores]_vars
    /\ [](\A t \in Threads :
             pc[t] = "open_ret" /\ res[t].tag = "Engine"
                 => canonical[t] \notin DOMAIN stores)

\* C6 witness: an open has returned the engine's error, its path has no
\* entry and the entry of another path is still there.
C6_Witness ==
    \E t \in Threads :
        /\ pc[t] = "done" /\ res[t].tag = "Engine"
        /\ canonical[t] \notin DOMAIN stores
        /\ DOMAIN stores # {}

\* C11: get never changes the registry and never opens the engine: every
\* step of a get, whatever it returns, leaves the map, the Stores and the
\* count of Store::new runs as they were.
C11_GetLeavesRegistry ==
    [][\A t \in Threads :
          (pc'[t] # pc[t] /\ call'[t].op = "get")
              => stores' = stores /\ heap' = heap /\ newCalls' = newCalls]_vars

\* C11 witness: gets have returned a handle, None and an I/O error.
C11_Witness ==
    /\ DOMAIN stores # {}
    /\ \E t \in Threads :
          pc[t] = "done" /\ call[t].op = "get" /\ res[t].tag = "Io"
    /\ \E t \in Threads :
          pc[t] = "done" /\ call[t].op = "get" /\ res[t].tag = "Ok"

\* C12: entries are monotonic: in every step an entry of the map stays in
\* the map with the same Store.
C12_EntriesPersist ==
    [][\A k \in DOMAIN stores : k \in DOMAIN stores' /\ stores'[k] = stores[k]]_vars

\* C12 witness: with an entry in the map an open has failed in the engine and
\* another call has failed to canonicalize.
C12_Witness ==
    /\ DOMAIN stores # {}
    /\ \E t \in Threads : pc[t] = "done" /\ res[t].tag = "Engine"
    /\ \E t \in Threads : pc[t] = "done" /\ res[t].tag = "Io"

\* C13: when the canonical path has an entry, open returns the handle in the
\* map, runs no Store::new and changes no entry, whatever its config is.
C13_OpenOfExistingEntry ==
    [][\A t \in Threads :
          (pc[t] = "open_entry" /\ pc'[t] # pc[t] /\ canonical[t] \in DOMAIN stores)
              => /\ pc'[t] = "open_ret"
                 /\ res'[t] = Ok(stores[canonical[t]])
                 /\ stores' = stores
                 /\ heap' = heap
                 /\ newCalls' = newCalls]_vars

\* C13 witness: an open with buckets and readonly set has returned the Store
\* that a default config created.
C13_Witness ==
    \E t \in Threads :
        /\ pc[t] = "done" /\ call[t].op = "open" /\ res[t].tag = "Ok"
        /\ call[t].cfg.readonly
        /\ ~heap[res[t].h].cfg.readonly
        /\ stores[canonical[t]] = res[t].h

\* C18: a get that runs concurrently with an open of the same canonical path
\* is atomic with respect to it: it returns None, with no entry in the map
\* and no Store opened yet, or the Store in the map, which the engine has
\* opened successfully and which is the handle every open of the path
\* returns.
C18_GetAtomicWithOpen ==
    [][\A t \in Threads :
          (pc[t] = "get_lookup" /\ pc'[t] = "done") =>
              /\ res'[t].tag \in {"Ok", "None"}
              /\ res'[t].tag = "None" =>
                    canonical[t] \notin DOMAIN stores /\ Opened(canonical[t]) = 0
              /\ res'[t].tag = "Ok" =>
                    /\ Opened(canonical[t]) = 1
                    /\ stores[canonical[t]] = res'[t].h
                    /\ \A u \in Threads :
                          (call[u].op = "open" /\ canonical[u] = canonical[t]
                              /\ res[u].tag = "Ok") => res[u].h = res'[t].h]_vars

\* C18 witness: after two calls, a get of /abs/db has returned None and an
\* open of /abs/db holds the Store it has just inserted.  The directory did
\* not exist at the start, so the open began before the get canonicalized and
\* inserted after the get looked up.
C18_Witness ==
    \E t, u \in Threads :
        /\ ncalls = 2
        /\ pc[t] = "done" /\ call[t].op = "get" /\ res[t] = None
        /\ canonical[t] = "/abs/db"
        /\ pc[u] = "open_ret" /\ res[u].tag = "Ok" /\ canonical[u] = "/abs/db"

\* C19: a failed open leaves the registry usable: the lock is held only
\* between lock() and the return of a call, so it is free once the call has
\* returned its error; an open that finds no entry runs Store::new again
\* whatever failed before, and on success inserts the Store it returns.
C19_FailedOpenReleasesRegistry ==
    /\ [](\A t \in Threads :
             mutex = t => pc[t] \in {"open_entry", "open_new", "open_ret"})
    /\ [][\A t \in Threads :
             (pc[t] = "open_entry" /\ pc'[t] # pc[t]
                 /\ canonical[t] \notin DOMAIN stores) => pc'[t] = "open_new"]_vars
    /\ [][\A t \in Threads :
             (pc[t] = "open_new" /\ pc'[t] # pc[t] /\ res'[t].tag = "Ok") =>
                 /\ canonical[t] \in DOMAIN stores'
                 /\ stores'[canonical[t]] = res'[t].h
                 /\ newCalls'[canonical[t]] = newCalls[canonical[t]] + 1]_vars

\* C19 witness: Store::new has failed for a path, the lock is free, and a
\* later open of the path has returned the Store now in the map.
C19_Witness ==
    \E t \in Threads :
        /\ mutex = 0
        /\ pc[t] = "done" /\ call[t].op = "open" /\ res[t].tag = "Ok"
        /\ newErrs[canonical[t]] >= 1
        /\ stores[canonical[t]] = res[t].h

(***************************************************************************)
(* Claims about the process: Store locks under SpecLocks, several Manager  *)
(* instances under SpecProcess.                                            *)
(***************************************************************************)
\* The thread is blocked on the lock of a Store.
Waits(t) == lk[t] \in {"want_read", "want_write"}

\* C14: no deadlock between the registry lock and a Store's lock.  A step
\* of open or get leaves every Store lock as it was and the thread that
\* holds the registry lock never waits for a Store lock, so it always has
\* a step; a thread at lock(), whatever Store lock it holds, has a step as
\* soon as the registry lock is free; and while any thread is inside a call
\* or waits for a lock, some thread can step.
C14_NoDeadlockWithStoreLocks ==
    /\ [](\A t \in Threads :
             /\ mutex = t => ~Waits(t) /\ ENABLED ManagerStep(t)
             /\ (pc[t] \in {"open_lock", "get_lookup"} /\ mutex = 0) =>
                   ENABLED ManagerStep(t)
             /\ (pc[t] \notin {"idle", "done"} \/ Waits(t)) => ENABLED NextLocks)
    /\ [][\A t \in Threads : pc'[t] # pc[t] => lk' = lk /\ lh' = lh]_vars

\* C14 witness: a thread that holds the write lock of a Store is at lock()
\* in open, and the registry lock is held by another thread whose open has
\* found that Store in the map.
C14_Witness ==
    \E t, u \in Threads :
        /\ t # u
        /\ lk[t] = "write" /\ pc[t] = "open_lock"
        /\ mutex = u /\ pc[u] = "open_entry"
        /\ canonical[u] \in DOMAIN stores
        /\ stores[canonical[u]] = lh[t]

\* The Stores open for canonical path cn, of Manager m.
StoresAt(cn) == {i \in DOMAIN heap : Resolve(heap[i].cfg.path) = cn}

StoresOfAt(m, cn) == {i \in StoresAt(cn) : heap[i].mgr = m}

Setters == {"set_map_size", "set_max_readers", "flag", "set_path", "bucket",
            "readonly", "database_flag"}

TargetOf(op) ==
    CASE op = "set_map_size"    -> "map_size"
      [] op = "set_max_readers" -> "max_readers"
      [] op = "flag"            -> "flags"
      [] op = "set_path"        -> "path"
      [] op = "bucket"          -> "buckets"
      [] op = "readonly"        -> "readonly"
      [] op = "database_flag"   -> "database_flags"

Others(cfg, field) == [k \in (DOMAIN cfg) \ {field} |-> cfg[k]]

\* C7: flag(f) merges f into the stored flags by bitwise OR: after every
\* call of flag(f), flags() is flags() before the call | f.
C7_FlagMergesByOr ==
    [][lastOp'.op = "flag" => flags(c') = BitOr(flags(c), lastOp'.n)]_vars

\* C8: every setter changes its own target field only: in each step of a
\* setter all the other fields of the Config keep their values.
C8_SettersChangeOnlyTheirField ==
    [][lastOp'.op \in Setters =>
          Others(c', TargetOf(lastOp'.op)) = Others(c, TargetOf(lastOp'.op))]_vars

\* C8 witness: readonly has just run on a Config whose flags, buckets and
\* database_flags had been set before.
C8_Witness ==
    /\ lastOp.op = "readonly"
    /\ c.readonly
    /\ c.flags # 0
    /\ Len(c.buckets) > 0

\* C9: bucket(name) appends name behind the names already there, and env()
\* hands the engine max_dbs = len(buckets) + 1.
C9_BucketAppendsAndMaxDbs ==
    /\ [][lastOp'.op = "bucket" => c'.buckets = Append(c.buckets, lastOp'.s)]_vars
    /\ [](lastOp.op = "env" => opened.max_dbs = Len(c.buckets) + 1)

\* C9 witness: default(p).bucket("a").bucket("b") opened by env().
C9_Witness ==
    /\ lastOp.op = "env"
    /\ c.buckets = <<"a", "b">>
    /\ opened.max_dbs = 3

\* C10: load_from over the bytes save_to produced returns a Config equal to
\* the one that was saved.
C10_SaveLoadRoundTrip ==
    loaded.tag # "none" => loaded.tag = "Ok" /\ loaded.cfg = loaded.of

\* C15: env() opens the engine with the stored flags, plus READ_ONLY exactly
\* when readonly is set, and with the Config's max_readers, map_size and
\* path; it changes no field of the Config.
C15_EnvEffectiveFlags ==
    /\ [](lastOp.op = "env" =>
             /\ opened.flags = IF c.readonly THEN BitOr(c.flags, READ_ONLY) ELSE c.flags
             /\ opened.max_readers = c.max_readers
             /\ opened.map_size = c.map_size
             /\ opened.path = c.path)
    /\ [][lastOp'.op = "env" => c' = c]_vars

\* C15 witness: env() has opened a readonly Config whose stored flags are
\* NO_SYNC: the engine got NO_SYNC | READ_ONLY and the stored flags stayed.
C15_Witness ==
    /\ lastOp.op = "env"
    /\ c.readonly
    /\ c.flags = NO_SYNC
    /\ opened.flags = NO_SYNC + READ_ONLY

\* C16: database_flag(name, f) ORs f into the flags of name and of no other
\* name, and a name never given to database_flag decodes to the empty set.
C16_DatabaseFlagMergesPerName ==
    /\ [][lastOp'.op = "database_flag" =>
             /\ database_flags(c', lastOp'.s) =
                   BitOr(database_flags(c, lastOp'.s), lastOp'.n)
             /\ \A other \in (BucketNames \cup {"never"}) \ {lastOp'.s} :
                   database_flags(c', other) = database_flags(c, other)]_vars
    /\ [](database_flags(c, "never") = 0)

\* C16 witness: two flags have been merged into bucket "a" while bucket "b"
\* keeps its own.
C16_Witness ==
    /\ lastOp.op = "database_flag"
    /\ database_flags(c, "a") = REVERSE_KEY + DUP_SORT
    /\ database_flags(c, "b") = DUP_SORT

\* Both flag words of a Config decode: flags() and database_flags(name) do
\* not reach the unwrap of None.
Decodes(cfg) ==
    /\ flags(cfg) # NoBits
    /\ \A name \in BucketNames : database_flags(cfg, name) # NoBits

\* C17 as claimed: flags() and database_flags(name) decode for every Config
\* obtained from default, setters and load_from.
C17_FlagWordsAlwaysDecode == Decodes(c)

\* C17 amended: they decode for every Config obtained from default, setters
\* and load_from over bytes that save_to wrote from such a Config.
C17_OwnFlagWordsDecode ==
    ~foreign => /\ Decodes(c)
                /\ loaded.tag = "Ok" => Decodes(loaded.cfg)

\* C17 witness: a Config with flags and database flags set has been saved
\* and loaded back.
C17_Witness ==
    /\ ~foreign
    /\ loaded.tag = "Ok"
    /\ loaded.cfg.flags # 0 \/ DOMAIN loaded.cfg.database_flags # {}

====
